---------------------------- MODULE Spec2Model ----------------------------
(***************************************************************************)
(* Model of prerequisites.py: apply_prerequisites(res, df).                *)
(*                                                                         *)
(* res (the records table) is [cols, rows]: cols is the set of column      *)
(* names of the DataFrame, rows the sequence of its rows, each a function  *)
(* from the column names to the cell value.  df (the roster) is            *)
(* [n, names, col]: n rows, names the column names in column order, col    *)
(* the values of each column, one per row, in row order.                   *)
(*                                                                         *)
(* A mask (a boolean pandas Series aligned to res.index) is modelled row   *)
(* by row: every mask of the source is an operator of one row r.           *)
(***************************************************************************)
EXTENDS Integers, Sequences, FiniteSets, TLC

VARIABLES
    res,      \* the records table
    df,       \* the roster, mutated in place
    pc,       \* where the call stands
    run,      \* number of the call on this roster
    df0,      \* the roster as it was when the current call began
    first,    \* the roster as the first call returned it
    todo,     \* concurrent writers: the rules that have not run yet
    order     \* concurrent writers: the rules that ran, in the order they ran

vars == <<res, df, pc, run, df0, first, todo, order>>

\* ---- bounds of the model ----
MaxRows == 2        \* record rows of a table of the run specification
MaxRoster == 2      \* roster rows
MaxRuns == 2        \* successive calls on the same roster

Range(seq) == {seq[i] : i \in DOMAIN seq}

\* ---- pandas primitives ----

\* The scalar False that sget broadcasts when the column is absent.  It is
\* a value distinct from every cell string: False != '' is True,
\* False == '' is False and False is a member of no grade list.
PyFalse == "False"

\* Variant of sget: the default is an acceptable grade, not False.
sget_acceptable(rs, r, col) ==
    IF col \in rs.cols THEN r[col] ELSE "A"

\* sget(col, default=False): res[col] if col in res, else Series(False).
sget(rs, r, col) ==
    IF col \in rs.cols THEN r[col] ELSE PyFalse

\* Series.isin(list), on one cell.
isin(v, L) ==
    v \in L

\* mask_any_u12_english: False, OR-ed with res[col] != '' for the columns
\* of ['ENGU12', 'ELANU12', 'LITU12'] that are in res.
mask_any_u12_english(rs, r) ==
    \E col \in {"ENGU12", "ELANU12", "LITU12"} :
        col \in rs.cols /\ r[col] # ""


\* ---- base masks (prerequisites.py lines 33-80) ----

new5(r) ==
    isin(r["CG"], {"N5"})

\* Variant of new4: the list names N4 only.
new4_only(r) ==
    isin(r["CG"], {"N4"})

new4(r) ==
    isin(r["CG"], {"N4", "N5"})

new3(r) ==
    isin(r["CG"], {"N3", "N4", "N5"})

new(r) ==
    isin(r["CG"], {"N2", "N3", "N4", "N5"})

\* Variant of cgtop3: the list leaves out A.
cgtop3_gap(r) ==
    isin(r["CG"], {"B+", "A+"})

cgtop3(r) ==
    isin(r["CG"], {"B+", "A", "A+"})

cgtop4(r) ==
    isin(r["CG"], {"B", "B+", "A", "A+"})

y6(r) ==
    (r["Y"] = 6)

y7(r) ==
    (r["Y"] = 7)

y8(r) ==
    (r["Y"] = 8)

y9(r) ==
    (r["Y"] = 9)

y10(r) ==
    (r["Y"] = 10)

y11(r) ==
    (r["Y"] = 11)

y12(r) ==
    (r["Y"] = 12)

early_VCE(r) ==
    (y9(r) /\ (isin(r["CG"], {"D+", "C", "C+", "B", "B+", "A", "A+"}) \/ new3(r)))

early_VCE_mid(r) ==
    (y9(r) /\ (isin(r["CG"], {"B", "B+", "A", "A+"}) \/ new5(r)))

early_VCE_high(r) ==
    (y9(r) /\ (isin(r["CG"], {"A", "A+"}) \/ new5(r)))

art_high(rs, r) ==
    ((y9(r) /\ cgtop3(r)) /\ (((((isin(sget(rs, r, "ARDE"), {"A", "A+"}) \/ isin(sget(rs, r, "DRPA"), {"A", "A+"})) \/ isin(sget(rs, r, "GRDE"), {"A", "A+"})) \/ isin(sget(rs, r, "PHO"), {"A", "A+"})) \/ isin(sget(rs, r, "SCME"), {"A", "A+"})) \/ isin(sget(rs, r, "SCPR"), {"A", "A+"})))

hum_high(rs, r) ==
    ((y9(r) /\ cgtop3(r)) /\ (((isin(sget(rs, r, "HIS1"), {"A", "A+"}) \/ isin(sget(rs, r, "RV3"), {"A", "A+"})) \/ isin(sget(rs, r, "GEO1"), {"A", "A+"})) \/ isin(sget(rs, r, "EB"), {"A", "A+"})))

mat_high(rs, r) ==
    ((y9(r) /\ cgtop3(r)) /\ (isin(sget(rs, r, "AMAT1"), {"A+"}) \/ new5(r)))

sci_high(rs, r) ==
    ((y9(r) /\ cgtop3(r)) /\ (isin(sget(rs, r, "RSC1"), {"A", "A+"}) \/ new5(r)))

pe_high(rs, r) ==
    ((y9(r) /\ cgtop3(r)) /\ ((isin(sget(rs, r, "HPE3"), {"A", "A+"}) \/ isin(sget(rs, r, "DE"), {"A", "A+"})) \/ isin(sget(rs, r, "RFIT"), {"A", "A+"})))

mat_high10(rs, r) ==
    (y10(r) /\ ((isin(sget(rs, r, "IMAT2"), {"A", "A+"}) /\ (sget(rs, r, "IMAT3") = "S2")) \/ isin(sget(rs, r, "AMAT2"), {"B+", "A", "A+"})))

mat_mid10(rs, r) ==
    (y10(r) /\ ((isin(sget(rs, r, "IMAT2"), {"B+", "A", "A+"}) /\ (sget(rs, r, "IMAT3") = "S2")) \/ isin(sget(rs, r, "AMAT2"), {"B", "B+", "A", "A+"})))

sci_mid10(rs, r) ==
    (y10(r) /\ (isin(sget(rs, r, "SCI4"), {"B", "B+", "A", "A+"}) \/ isin(sget(rs, r, "RSC1"), {"B", "B+", "A", "A+"})))

sci_minmid10(rs, r) ==
    (y10(r) /\ (isin(sget(rs, r, "SCI4"), {"C+", "B", "B+", "A", "A+"}) \/ isin(sget(rs, r, "RSC1"), {"C+", "B", "B+", "A", "A+"})))

sci_min10(rs, r) ==
    (y10(r) /\ (isin(sget(rs, r, "SCI4"), {"C", "C+", "B", "B+", "A", "A+"}) \/ isin(sget(rs, r, "RSC1"), {"C", "C+", "B", "B+", "A", "A+"})))

Year7 ==
    << "Design and Technologies",
       "Digital Technologies",
       "Drama 1",
       "English 1",
       "Health and Physical Education 1",
       "Humanities 1",
       "Mathematics 1",
       "Music 1",
       "Religion and Values 1",
       "Science 1",
       "Visual Arts 1",
       "Arabic 1",
       "Turkish 1",
       "Turkish 2",
       "Turkish 5" >>

Year8 ==
    << "Drama 2",
       "English 2",
       "Food Technology",
       "Health and Physical Education 2",
       "Humanities 2",
       "Mathematics 2",
       "Media",
       "Music 2",
       "Programming",
       "Religion and Values 2",
       "Robotics 1",
       "Science 2",
       "Textiles",
       "Visual Arts 2",
       "Arabic 2",
       "Turkish 3",
       "Turkish 6" >>

Year9 ==
    << "English 3",
       "Health and Physical Education 3",
       "History 1",
       "Intermediate Mathematics 1",
       "Religion and Values 3",
       "Science 3",
       "Advanced Mathematics 1",
       "Arabic 3",
       "Architecture and Design",
       "Behavioural Science",
       "Civics and Citizenship",
       "Debating and Public Speaking",
       "Drama 3",
       "Drawing and Painting",
       "Duke of Edinburgh",
       "Economics and Business",
       "Fashion and Textile Trends",
       "Food and the Food Industry",
       "Geography 1",
       "Graphic Design",
       "Innovation",
       "Introduction to Artificial Intelligence",
       "Music 3",
       "Photography",
       "Recreational Fitness",
       "Recreational Mathematics",
       "Research Science 1",
       "Research Science 2",
       "Robotics 2",
       "Screen and Media",
       "Sculpture and Printmaking",
       "Social Values in Film",
       "Stagecraft and Production",
       "Technology Start-Ups",
       "Turkish 7",
       "Volunteering Skills",
       "Web Design and Cyber Security" >>

Year10 ==
    << "Certificate II in Workplace Skills",
       "English 4",
       "Health and Physical Education 4",
       "History 2",
       "Intermediate Mathematics 2",
       "Intermediate Mathematics 3",
       "Religion Studies",
       "Science 4",
       "Advanced English",
       "Advanced Mathematics 2",
       "Extended Mathematics" >>

Unit12 ==
    << "Drama U12",
       "English Language U12",
       "English U12",
       "General Mathematics U12",
       "Literature U12",
       "VCE VET Business U12",
       "VCE VET Sport and Recreation U12",
       "Art Creative Practice U12",
       "Theatre Studies U12",
       "Visual Communication Design U12",
       "Economics U12",
       "History U12",
       "Legal Studies U12",
       "Texts and Traditions U12",
       "Politics U12",
       "Sociology U12",
       "Chemistry U12",
       "Physics U12",
       "Applied Computing U12",
       "Biology U12",
       "Business Management U12",
       "Health and Human Development U12",
       "Mathematical Methods U12",
       "Outdoor and Environmental Studies U12",
       "Physical Education U12",
       "Product Design and Technologies U12",
       "Psychology U12",
       "Specialist Mathematics U12",
       "Turkish U12" >>

Unit34 ==
    << "Art Creative Practice U34",
       "Biology U34",
       "Business Management U34",
       "Chemistry U34",
       "Data Analytics U34",
       "Software Development U34",
       "Drama U34",
       "Economics U34",
       "English U34",
       "English Language U34",
       "Literature U34",
       "General Mathematics U34",
       "Health and Human Development U34",
       "History U34",
       "Legal Studies U34",
       "Mathematical Methods U34",
       "Physical Education U34",
       "Physics U34",
       "Psychology U34",
       "Specialist Mathematics U34",
       "Turkish U34",
       "VCE VET Business U34",
       "VCE VET Sport and Recreation U34",
       "Visual Communication Design U34" >>

RuleYear7(subj, rs, r) ==
    CASE subj \in {"Design and Technologies",
                   "Digital Technologies",
                   "Drama 1",
                   "English 1",
                   "Health and Physical Education 1",
                   "Humanities 1",
                   "Mathematics 1",
                   "Music 1",
                   "Religion and Values 1",
                   "Science 1",
                   "Visual Arts 1"} ->
           y6(r)
      [] subj = "Arabic 1" ->
           (y6(r) /\ (isin(sget(rs, r, "ARA"), {"C5", "C4", "C3", "C2", "C1", "B2", "B1", "A"}) \/ new(r)))
      [] subj = "Turkish 1" ->
           (((y6(r) \/ y7(r)) \/ y8(r)) /\ new(r))
      [] subj = "Turkish 2" ->
           (((y6(r) /\ (sget(rs, r, "TUR") # "")) \/ (y7(r) /\ (sget(rs, r, "TUR1") # ""))) \/ (y6(r) /\ isin(sget(rs, r, "BTUR"), {"A", "B1", "B2"})))
      [] subj = "Turkish 5" ->
           (y6(r) /\ (sget(rs, r, "ATUR") # ""))

Year7Set == Range(Year7)

RuleYear8(subj, rs, r) ==
    CASE subj \in {"Drama 2",
                   "English 2",
                   "Food Technology",
                   "Health and Physical Education 2",
                   "Humanities 2",
                   "Mathematics 2",
                   "Media",
                   "Music 2",
                   "Programming",
                   "Religion and Values 2",
                   "Robotics 1",
                   "Science 2",
                   "Textiles",
                   "Visual Arts 2"} ->
           y7(r)
      [] subj = "Arabic 2" ->
           ((sget(rs, r, "ARA1") # "") \/ (y7(r) /\ new(r)))
      [] subj = "Turkish 3" ->
           ((sget(rs, r, "TUR2") # "") /\ (y7(r) \/ y8(r)))
      [] subj = "Turkish 6" ->
           ((sget(rs, r, "TUR5") # "") /\ y7(r))

Year8Set == Range(Year8)

RuleYear9(subj, rs, r) ==
    CASE subj \in {"English 3",
                   "Health and Physical Education 3",
                   "History 1",
                   "Intermediate Mathematics 1",
                   "Religion and Values 3",
                   "Science 3"} ->
           y8(r)
      [] subj = "Advanced Mathematics 1" ->
           (y8(r) /\ (isin(sget(rs, r, "MAT2"), {"A", "A+"}) \/ new5(r)))
      [] subj = "Arabic 3" ->
           ((sget(rs, r, "ARA2") # "") \/ (y8(r) /\ new(r)))
      [] subj = "Architecture and Design" ->
           ((sget(rs, r, "ARDE") = "") /\ (y8(r) \/ y9(r)))
      [] subj = "Behavioural Science" ->
           (y8(r) \/ y9(r))
      [] subj = "Civics and Citizenship" ->
           ((sget(rs, r, "CC") = "") /\ (y8(r) \/ y9(r)))
      [] subj = "Debating and Public Speaking" ->
           (y8(r) \/ y9(r))
      [] subj = "Drama 3" ->
           (y8(r) \/ y9(r))
      [] subj = "Drawing and Painting" ->
           ((sget(rs, r, "DRPA") = "") /\ (y8(r) \/ y9(r)))
      [] subj = "Duke of Edinburgh" ->
           (y8(r) \/ y9(r))
      [] subj = "Economics and Business" ->
           ((sget(rs, r, "EB") = "") /\ (y8(r) \/ y9(r)))
      [] subj = "Fashion and Textile Trends" ->
           ((sget(rs, r, "FATT") = "") /\ (y8(r) \/ y9(r)))
      [] subj = "Food and the Food Industry" ->
           ((sget(rs, r, "FI") = "") /\ (y8(r) \/ y9(r)))
      [] subj = "Geography 1" ->
           ((sget(rs, r, "GEO1") = "") /\ (y8(r) \/ y9(r)))
      [] subj = "Graphic Design" ->
           ((sget(rs, r, "GRDE") = "") /\ (y8(r) \/ y9(r)))
      [] subj = "Innovation" ->
           ((sget(rs, r, "INN") = "") /\ (y8(r) \/ y9(r)))
      [] subj = "Introduction to Artificial Intelligence" ->
           (y8(r) \/ y9(r))
      [] subj = "Music 3" ->
           (y8(r) \/ y9(r))
      [] subj = "Photography" ->
           ((sget(rs, r, "PHO") = "") /\ (y8(r) \/ y9(r)))
      [] subj = "Recreational Fitness" ->
           (((sget(rs, r, "RFIT") = "") /\ (y8(r) \/ y9(r))) /\ ((isin(sget(rs, r, "HPE2"), {"C", "C+", "B", "B+", "A", "A+"}) \/ isin(sget(rs, r, "HPE3"), {"C", "C+", "B", "B+", "A", "A+"})) \/ new5(r)))
      [] subj = "Recreational Mathematics" ->
           ((sget(rs, r, "RMAT") = "") /\ (y8(r) \/ y9(r)))
      [] subj = "Research Science 1" ->
           ((y8(r) /\ (isin(sget(rs, r, "SCI2"), {"B+", "A", "A+"}) \/ new4(r))) \/ (y9(r) /\ (isin(sget(rs, r, "SCI3"), {"C+", "B", "B+", "A", "A+"}) \/ new4(r))))
      [] subj = "Research Science 2" ->
           (y8(r) /\ (isin(sget(rs, r, "SCI2"), {"B+", "A", "A+"}) \/ new4(r)))
      [] subj = "Robotics 2" ->
           ((sget(rs, r, "ROB2") = "") /\ (y8(r) \/ y9(r)))
      [] subj = "Screen and Media" ->
           ((sget(rs, r, "SCME") = "") /\ (y8(r) \/ y9(r)))
      [] subj = "Sculpture and Printmaking" ->
           ((sget(rs, r, "SCPR") = "") /\ (y8(r) \/ y9(r)))
      [] subj = "Social Values in Film" ->
           ((sget(rs, r, "SVF") = "") /\ (y8(r) \/ y9(r)))
      [] subj = "Stagecraft and Production" ->
           (y8(r) \/ y9(r))
      [] subj = "Technology Start-Ups" ->
           (y8(r) \/ y9(r))
      [] subj = "Turkish 7" ->
           ((sget(rs, r, "TUR6") # "") /\ y8(r))
      [] subj = "Volunteering Skills" ->
           ((sget(rs, r, "VS") = "") /\ (y8(r) \/ y9(r)))
      [] subj = "Web Design and Cyber Security" ->
           ((sget(rs, r, "WDCS") = "") /\ (y8(r) \/ y9(r)))

Year9Set == Range(Year9)

RuleYear10(subj, rs, r) ==
    CASE subj \in {"Certificate II in Workplace Skills",
                   "English 4",
                   "Health and Physical Education 4",
                   "History 2",
                   "Intermediate Mathematics 2",
                   "Intermediate Mathematics 3",
                   "Religion Studies",
                   "Science 4"} ->
           y9(r)
      [] subj = "Advanced English" ->
           (y9(r) /\ ((isin(sget(rs, r, "ENG3"), {"B", "B+", "A", "A+"}) /\ cgtop4(r)) \/ new4(r)))
      [] subj = "Advanced Mathematics 2" ->
           (y9(r) /\ ((isin(sget(rs, r, "AMAT1"), {"C", "C+", "B", "B+", "A", "A+"}) \/ isin(sget(rs, r, "IMAT1"), {"A", "A+"})) \/ new5(r)))
      [] subj = "Extended Mathematics" ->
           (y9(r) /\ ((isin(sget(rs, r, "AMAT1"), {"C", "C+", "B", "B+", "A", "A+"}) \/ isin(sget(rs, r, "IMAT1"), {"A", "A+"})) \/ new5(r)))

Year10Set == Range(Year10)

RuleUnit12(subj, rs, r) ==
    CASE subj \in {"Drama U12",
                   "English Language U12",
                   "English U12",
                   "General Mathematics U12",
                   "Literature U12",
                   "VCE VET Business U12",
                   "VCE VET Sport and Recreation U12"} ->
           y10(r)
      [] subj = "Art Creative Practice U12" ->
           ((y10(r) \/ early_VCE_high(r)) \/ art_high(rs, r))
      [] subj = "Theatre Studies U12" ->
           ((y10(r) \/ early_VCE_high(r)) \/ art_high(rs, r))
      [] subj = "Visual Communication Design U12" ->
           ((y10(r) \/ early_VCE_high(r)) \/ art_high(rs, r))
      [] subj = "Economics U12" ->
           ((y10(r) \/ early_VCE_high(r)) \/ hum_high(rs, r))
      [] subj = "History U12" ->
           ((y10(r) \/ early_VCE_high(r)) \/ hum_high(rs, r))
      [] subj = "Legal Studies U12" ->
           ((y10(r) \/ early_VCE_high(r)) \/ hum_high(rs, r))
      [] subj = "Texts and Traditions U12" ->
           ((y10(r) \/ early_VCE_high(r)) \/ hum_high(rs, r))
      [] subj = "Politics U12" ->
           ((y10(r) \/ early_VCE_high(r)) \/ hum_high(rs, r))
      [] subj = "Sociology U12" ->
           ((y10(r) \/ early_VCE_high(r)) \/ hum_high(rs, r))
      [] subj = "Chemistry U12" ->
           (((y10(r) /\ (sci_mid10(rs, r) \/ new4(r))) \/ (early_VCE_high(r) /\ sci_high(rs, r))) \/ (new5(r) /\ (y9(r) \/ y10(r))))
      [] subj = "Physics U12" ->
           (((y10(r) /\ (sci_minmid10(rs, r) \/ new4(r))) \/ (early_VCE_high(r) /\ sci_high(rs, r))) \/ (new5(r) /\ (y9(r) \/ y10(r))))
      [] subj = "Applied Computing U12" ->
           ((sget(rs, r, "ACOMU12") = "") /\ (y10(r) \/ early_VCE(r)))
      [] subj = "Biology U12" ->
           (((((y9(r) /\ cgtop4(r)) /\ (isin(sget(rs, r, "SCI3"), {"B+", "A", "A+"}) \/ (sget(rs, r, "RSC1") # ""))) \/ (y9(r) /\ new4(r))) \/ (y10(r) /\ new4(r))) \/ ((y10(r) /\ sci_min10(rs, r)) /\ (sget(rs, r, "BIOU12") = "")))
      [] subj = "Business Management U12" ->
           ((sget(rs, r, "BMU12") = "") /\ (y10(r) \/ early_VCE(r)))
      [] subj = "Health and Human Development U12" ->
           ((sget(rs, r, "HHDU12") = "") /\ (y10(r) \/ early_VCE(r)))
      [] subj = "Mathematical Methods U12" ->
           (((y10(r) /\ (mat_mid10(rs, r) \/ new4(r))) \/ (early_VCE_high(r) /\ mat_high(rs, r))) \/ (new5(r) /\ (y9(r) \/ y10(r))))
      [] subj = "Outdoor and Environmental Studies U12" ->
           ((y10(r) \/ early_VCE_high(r)) \/ pe_high(rs, r))
      [] subj = "Physical Education U12" ->
           ((y10(r) \/ early_VCE_high(r)) \/ pe_high(rs, r))
      [] subj = "Product Design and Technologies U12" ->
           (y10(r) \/ early_VCE_mid(r))
      [] subj = "Psychology U12" ->
           (((((y9(r) /\ cgtop4(r)) /\ (isin(sget(rs, r, "SCI3"), {"B", "B+", "A", "A+"}) \/ (sget(rs, r, "RSC1") # ""))) \/ (y9(r) /\ new4(r))) \/ (y10(r) /\ new4(r))) \/ ((y10(r) /\ sci_min10(rs, r)) /\ (sget(rs, r, "PSYU12") = "")))
      [] subj = "Specialist Mathematics U12" ->
           ((y10(r) /\ (mat_high10(rs, r) \/ new4(r))) \/ (new5(r) /\ y10(r)))
      [] subj = "Turkish U12" ->
           ((y9(r) \/ y10(r)) /\ (sget(rs, r, "TUR7") # ""))

Unit12Set == Range(Unit12)

RuleUnit34(subj, rs, r) ==
    CASE subj = "Art Creative Practice U34" ->
           (sget(rs, r, "ACPU12") # "")
      [] subj = "Biology U34" ->
           (sget(rs, r, "BIOU12") # "")
      [] subj = "Business Management U34" ->
           (sget(rs, r, "BMU12") # "")
      [] subj = "Chemistry U34" ->
           (sget(rs, r, "CHEU12") # "")
      [] subj = "Data Analytics U34" ->
           (sget(rs, r, "ACOMU12") # "")
      [] subj = "Software Development U34" ->
           (sget(rs, r, "ACOMU12") # "")
      [] subj = "Drama U34" ->
           (sget(rs, r, "DRAU12") # "")
      [] subj = "Economics U34" ->
           (sget(rs, r, "ECOU12") # "")
      [] subj = "English U34" ->
           mask_any_u12_english(rs, r)
      [] subj = "English Language U34" ->
           mask_any_u12_english(rs, r)
      [] subj = "Literature U34" ->
           mask_any_u12_english(rs, r)
      [] subj = "General Mathematics U34" ->
           ((((sget(rs, r, "GMATU12") # "") \/ (sget(rs, r, "MATMU12") # "")) \/ mat_high10(rs, r)) \/ (y10(r) /\ new4(r)))
      [] subj = "Health and Human Development U34" ->
           (sget(rs, r, "HHDU12") # "")
      [] subj = "History U34" ->
           (sget(rs, r, "HISU12") # "")
      [] subj = "Legal Studies U34" ->
           (sget(rs, r, "LEGU12") # "")
      [] subj = "Mathematical Methods U34" ->
           (sget(rs, r, "MATMU12") # "")
      [] subj = "Physical Education U34" ->
           (sget(rs, r, "PEU12") # "")
      [] subj = "Physics U34" ->
           (sget(rs, r, "PHYU12") # "")
      [] subj = "Psychology U34" ->
           (sget(rs, r, "PSYU12") # "")
      [] subj = "Specialist Mathematics U34" ->
           (((sget(rs, r, "SMATU12") # "") \/ (y11(r) /\ isin(sget(rs, r, "MATMU12"), {"B+", "A", "A+"}))) \/ (y11(r) /\ new5(r)))
      [] subj = "Turkish U34" ->
           (sget(rs, r, "TURU12") # "")
      [] subj = "VCE VET Business U34" ->
           (sget(rs, r, "VBUSU12") # "")
      [] subj = "VCE VET Sport and Recreation U34" ->
           (sget(rs, r, "VSRU12") # "")
      [] subj = "Visual Communication Design U34" ->
           (sget(rs, r, "VCDU12") # "")

Unit34Set == Range(Unit34)

Rule(subj, rs, r) ==
    CASE subj \in Year7Set -> RuleYear7(subj, rs, r)
      [] subj \in Year8Set -> RuleYear8(subj, rs, r)
      [] subj \in Year9Set -> RuleYear9(subj, rs, r)
      [] subj \in Year10Set -> RuleYear10(subj, rs, r)
      [] subj \in Unit12Set -> RuleUnit12(subj, rs, r)
      [] subj \in Unit34Set -> RuleUnit34(subj, rs, r)

\* The subjects whose whole rule is sget(col) != '', with that column.
MarkerOnly ==
    {<<"Art Creative Practice U34", "ACPU12">>,
     <<"Biology U34", "BIOU12">>,
     <<"Business Management U34", "BMU12">>,
     <<"Chemistry U34", "CHEU12">>,
     <<"Data Analytics U34", "ACOMU12">>,
     <<"Software Development U34", "ACOMU12">>,
     <<"Drama U34", "DRAU12">>,
     <<"Economics U34", "ECOU12">>,
     <<"Health and Human Development U34", "HHDU12">>,
     <<"History U34", "HISU12">>,
     <<"Legal Studies U34", "LEGU12">>,
     <<"Mathematical Methods U34", "MATMU12">>,
     <<"Physical Education U34", "PEU12">>,
     <<"Physics U34", "PHYU12">>,
     <<"Psychology U34", "PSYU12">>,
     <<"Turkish U34", "TURU12">>,
     <<"VCE VET Business U34", "VBUSU12">>,
     <<"VCE VET Sport and Recreation U34", "VSRU12">>,
     <<"Visual Communication Design U34", "VCDU12">>}

\* <<subject, column>>: the rule of the subject compares sget(column) with ''.
EmptyCompared ==
    {<<"Turkish 2", "TUR">>,
     <<"Turkish 2", "TUR1">>,
     <<"Turkish 5", "ATUR">>,
     <<"Arabic 2", "ARA1">>,
     <<"Turkish 3", "TUR2">>,
     <<"Turkish 6", "TUR5">>,
     <<"Arabic 3", "ARA2">>,
     <<"Architecture and Design", "ARDE">>,
     <<"Civics and Citizenship", "CC">>,
     <<"Drawing and Painting", "DRPA">>,
     <<"Economics and Business", "EB">>,
     <<"Fashion and Textile Trends", "FATT">>,
     <<"Food and the Food Industry", "FI">>,
     <<"Geography 1", "GEO1">>,
     <<"Graphic Design", "GRDE">>,
     <<"Innovation", "INN">>,
     <<"Photography", "PHO">>,
     <<"Recreational Fitness", "RFIT">>,
     <<"Recreational Mathematics", "RMAT">>,
     <<"Robotics 2", "ROB2">>,
     <<"Screen and Media", "SCME">>,
     <<"Sculpture and Printmaking", "SCPR">>,
     <<"Social Values in Film", "SVF">>,
     <<"Turkish 7", "TUR6">>,
     <<"Volunteering Skills", "VS">>,
     <<"Web Design and Cyber Security", "WDCS">>,
     <<"Applied Computing U12", "ACOMU12">>,
     <<"Biology U12", "BIOU12">>,
     <<"Biology U12", "RSC1">>,
     <<"Business Management U12", "BMU12">>,
     <<"Health and Human Development U12", "HHDU12">>,
     <<"Psychology U12", "PSYU12">>,
     <<"Psychology U12", "RSC1">>,
     <<"Turkish U12", "TUR7">>,
     <<"Art Creative Practice U34", "ACPU12">>,
     <<"Biology U34", "BIOU12">>,
     <<"Business Management U34", "BMU12">>,
     <<"Chemistry U34", "CHEU12">>,
     <<"Data Analytics U34", "ACOMU12">>,
     <<"Software Development U34", "ACOMU12">>,
     <<"Drama U34", "DRAU12">>,
     <<"Economics U34", "ECOU12">>,
     <<"General Mathematics U34", "GMATU12">>,
     <<"General Mathematics U34", "MATMU12">>,
     <<"Health and Human Development U34", "HHDU12">>,
     <<"History U34", "HISU12">>,
     <<"Legal Studies U34", "LEGU12">>,
     <<"Mathematical Methods U34", "MATMU12">>,
     <<"Physical Education U34", "PEU12">>,
     <<"Physics U34", "PHYU12">>,
     <<"Psychology U34", "PSYU12">>,
     <<"Specialist Mathematics U34", "SMATU12">>,
     <<"Turkish U34", "TURU12">>,
     <<"VCE VET Business U34", "VBUSU12">>,
     <<"VCE VET Sport and Recreation U34", "VSRU12">>,
     <<"Visual Communication Design U34", "VCDU12">>}


Catalog ==
    Year7 \o Year8 \o Year9 \o Year10 \o Unit12 \o Unit34

Subjects == Range(Catalog)

\* ---- the roster and the single reduction operator ----

\* Every column name a roster of the model can carry: its own columns and
\* the catalog subjects.  d.col[c] is the column c of the roster d when c
\* is one of d.names, and the empty sequence otherwise.
RosterColumns == {"Student ID", "Seat"} \cup Subjects

\* Variant of Assign: an existing column is added to, not replaced.
Assign_accumulate(d, colname, vals) ==
    [d EXCEPT !.names = @ \cup {colname},
              !.col[colname] = IF colname \in d.names
                               THEN [i \in 1..d.n |-> @[i] + vals[i]]
                               ELSE vals]

\* df[colname] = vals: overwrites the column in place when it exists,
\* appends it as the last column otherwise.
Assign(d, colname, vals) ==
    [d EXCEPT !.names = @ \cup {colname},
              !.col[colname] = vals]

\* set_flag(mask, colname).  res.loc[mask, 'StuID'] raises KeyError when the
\* records have no StuID column, df['Student ID'] when the roster has no
\* such column; both are evaluated before df[colname] is assigned.
\* df['Student ID'].isin(valid_students).astype(int)
IsinAsInt(d, valid_students) ==
    [i \in 1..d.n |-> IF d.col["Student ID"][i] \in valid_students THEN 1 ELSE 0]

\* Variant of set_flag: only the last record row of a student decides.
set_flag_latest(rs, d, mask, colname) ==
    IF "StuID" \notin rs.cols \/ "Student ID" \notin d.names
    THEN [df |-> d, err |-> TRUE]
    ELSE [df |-> Assign(d, colname,
              IsinAsInt(d, {rs.rows[i]["StuID"] :
                  i \in {j \in DOMAIN rs.rows :
                            /\ mask[j]
                            /\ \A k \in DOMAIN rs.rows :
                                  k > j => rs.rows[k]["StuID"] # rs.rows[j]["StuID"]}})),
          err |-> FALSE]

\* Variant of set_flag: the column is created before the key columns are read.
set_flag_init_first(rs, d, mask, colname) ==
    IF "StuID" \notin rs.cols \/ "Student ID" \notin d.names
    THEN [df |-> Assign(d, colname, [i \in 1..d.n |-> 0]), err |-> TRUE]
    ELSE [df |-> Assign(d, colname,
              IsinAsInt(d, {rs.rows[i]["StuID"] :
                               i \in {j \in DOMAIN rs.rows : mask[j]}})),
          err |-> FALSE]

\* The rows of a column whose index is in keep, in order.
KeepRows(column, keep) ==
    LET F[k \in 0..Len(column)] ==
            IF k = 0 THEN <<>>
            ELSE IF k \in keep THEN Append(F[k - 1], column[k]) ELSE F[k - 1]
    IN  F[Len(column)]

\* Variant of set_flag: an inner join, which drops the roster rows of the
\* students that have no record row.
set_flag_inner_join(rs, d, mask, colname) ==
    IF "StuID" \notin rs.cols \/ "Student ID" \notin d.names
    THEN [df |-> d, err |-> TRUE]
    ELSE LET keep == {i \in 1..d.n :
                        \E j \in DOMAIN rs.rows :
                            rs.rows[j]["StuID"] = d.col["Student ID"][i]}
             kept == [n |-> Cardinality(keep),
                      names |-> d.names,
                      col |-> [c \in DOMAIN d.col |->
                                 IF c \in d.names THEN KeepRows(d.col[c], keep)
                                 ELSE d.col[c]]]
         IN  [df |-> Assign(kept, colname,
                  IsinAsInt(kept, {rs.rows[i]["StuID"] :
                                      i \in {j \in DOMAIN rs.rows : mask[j]}})),
              err |-> FALSE]

set_flag(rs, d, mask, colname) ==
    IF "StuID" \notin rs.cols
    THEN [df |-> d, err |-> TRUE]
    ELSE IF "Student ID" \notin d.names
         THEN [df |-> d, err |-> TRUE]
         ELSE [df |-> Assign(d, colname,
                   IsinAsInt(d, {rs.rows[i]["StuID"] :
                                    i \in {j \in DOMAIN rs.rows : mask[j]}})),
               err |-> FALSE]

\* The mask a rule passes to set_flag.
Mask(subj, rs) ==
    [i \in DOMAIN rs.rows |-> Rule(subj, rs, rs.rows[i])]

\* Variant of Stmt: 'Social Values in Film' has no else branch.
Stmt_no_else(subj, rs, d) ==
    IF subj = "Social Values in Film" /\ "SVF" \notin rs.cols
    THEN [df |-> d, err |-> FALSE]
    ELSE set_flag(rs, d, Mask(subj, rs), subj)

\* Variant of Stmt: 'Research Science 2' writes the column of
\* 'Research Science 1'.
Stmt_shared_column(subj, rs, d) ==
    IF subj = "Social Values in Film" /\ "SVF" \notin rs.cols
    THEN [df |-> Assign(d, subj, [i \in 1..d.n |-> 0]), err |-> FALSE]
    ELSE set_flag(rs, d, Mask(subj, rs),
                  IF subj = "Research Science 2" THEN "Research Science 1" ELSE subj)

\* One statement of the rule catalog: set_flag(<rule>, subj), except that
\* 'Social Values in Film' is df[...] = 0 when res has no SVF column.
Stmt(subj, rs, d) ==
    IF subj = "Social Values in Film" /\ "SVF" \notin rs.cols
    THEN [df |-> Assign(d, subj, [i \in 1..d.n |-> 0]), err |-> FALSE]
    ELSE set_flag(rs, d, Mask(subj, rs), subj)

\* The statements lo..hi of a section in source order; an exception ends
\* the call and leaves the roster as the statements before it made it.
\* (The range is split in halves only to keep the evaluation shallow: the
\* statements still run one after the other, each on the roster the
\* previous one left.)
RECURSIVE RunRange(_, _, _, _, _)
RunRest(s, stmts, lo, hi, rs) ==
    IF s.err THEN s ELSE RunRange(stmts, lo, hi, rs, s.df)

RunRange(stmts, lo, hi, rs, d) ==
    IF lo > hi
    THEN [df |-> d, err |-> FALSE]
    ELSE IF lo = hi
         THEN Stmt(stmts[lo], rs, d)
         ELSE CHOOSE out \in
                  {RunRest(s, stmts, ((lo + hi) \div 2) + 1, hi, rs) :
                      s \in {RunRange(stmts, lo, (lo + hi) \div 2, rs, d)}} : TRUE

RunStmts(stmts, rs, d) ==
    RunRange(stmts, 1, Len(stmts), rs, d)

\* The base masks read res['CG'] and res['Y'] before any rule runs.
BaseMasksRaise(rs) ==
    "CG" \notin rs.cols \/ "Y" \notin rs.cols

\* The whole call.
apply_prerequisites(rs, d) ==
    IF BaseMasksRaise(rs)
    THEN [df |-> d, err |-> TRUE]
    ELSE RunStmts(Catalog, rs, d)

\* ---- inputs ----

Required == {"StuID", "Y", "CG"}

MkRow(cols, id, y, cg, cells) ==
    [c \in cols |->
        CASE c = "StuID" -> id
          [] c = "Y" -> y
          [] c = "CG" -> cg
          [] OTHER -> cells[c]]

Tables(rowset, k) ==
    UNION {[1..m -> rowset] : m \in 0..k}

\* A roster: the join key (unless the roster lacks it), a column of its own
\* and, when stale, a column that already carries a catalog subject's name.
MkRoster(ids, hasKey, stale) ==
    [n |-> Len(ids),
     names |-> (IF hasKey THEN {"Student ID"} ELSE {}) \cup {"Seat"}
               \cup (IF stale THEN {"Media"} ELSE {}),
     col |-> [c \in RosterColumns |->
                CASE c = "Student ID" /\ hasKey -> ids
                  [] c = "Seat" -> [i \in 1..Len(ids) |-> i]
                  [] c = "Media" /\ stale -> [i \in 1..Len(ids) |-> 7]
                  [] OTHER -> <<>>]]

RosterIds == {"S1", "S2"}
RecordIds == {"S1", "S3"}

\* Year level, composite grade and the value of every optional cell of a
\* record row of the run specification.
Profiles ==
    {[Y |-> 6, CG |-> "B", v |-> ""],
     [Y |-> 8, CG |-> "C", v |-> "B+"],
     [Y |-> 9, CG |-> "N5", v |-> "A"],
     [Y |-> 11, CG |-> "A", v |-> ""]}

RunOptional == {{}, {"SVF", "SCI3", "BIOU12"}}

\* The profiles of the rows of a run: a Year 6 row with empty cells and a
\* Year 9 row with the "N5" override and graded cells.
RunProfiles == {p \in Profiles : p.Y \in {6, 9}}

RunRows(cols) ==
    {MkRow(cols, id, p.Y, p.CG, [c \in cols |-> p.v]) :
        id \in RecordIds, p \in RunProfiles}

\* ---- the call, section by section ----

Init ==
    /\ \E missing \in {"none", "StuID", "Y", "CG", "Student ID"},
          P \in RunOptional, stale \in BOOLEAN,
          ids \in UNION {[1..k -> RosterIds] : k \in 0..MaxRoster} :
          LET cols == (Required \ {missing}) \cup P
          IN  /\ res \in {[cols |-> cols, rows |-> t] :
                             t \in Tables(RunRows(cols), MaxRows)}
              /\ df = MkRoster(ids, missing # "Student ID", stale)
    /\ pc = "start"
    /\ run = 1
    /\ df0 = df
    /\ first = df
    /\ todo = {}
    /\ order = <<>>

BaseMasks ==
    /\ pc = "start"
    /\ pc' = IF BaseMasksRaise(res) THEN "error" ELSE "Year7"
    /\ UNCHANGED <<res, df, run, df0, first, todo, order>>

Section(name, stmts, next) ==
    /\ pc = name
    /\ \E s \in {RunStmts(stmts, res, df)} :
           /\ df' = s.df
           /\ pc' = IF s.err THEN "error" ELSE next
           /\ first' = IF next = "done" /\ ~s.err /\ run = 1 THEN s.df ELSE first
    /\ UNCHANGED <<res, run, df0, todo, order>>

ApplyYear7 == Section("Year7", Year7, "Year8")
ApplyYear8 == Section("Year8", Year8, "Year9")
ApplyYear9 == Section("Year9", Year9, "Year10")
ApplyYear10 == Section("Year10", Year10, "Unit12")
ApplyUnit12 == Section("Unit12", Unit12, "Unit34")
ApplyUnit34 == Section("Unit34", Unit34, "done")

\* The caller passes the returned roster to a further call, same records.
Rerun ==
    /\ pc = "done"
    /\ run < MaxRuns
    /\ pc' = "start"
    /\ run' = run + 1
    /\ df0' = df
    /\ UNCHANGED <<res, df, first, todo, order>>

Next ==
    \/ BaseMasks
    \/ ApplyYear7
    \/ ApplyYear8
    \/ ApplyYear9
    \/ ApplyYear10
    \/ ApplyUnit12
    \/ ApplyUnit34
    \/ Rerun

Spec == Init /\ [][Next]_vars

\* ---- the rule catalog on one record row ----

CompositeGrades ==
    {"D+", "C-", "C", "C+", "B-", "B", "B+", "A-", "A", "A+",
     "N2", "N3", "N4", "N5"}

CellValues ==
    {"", "S2", "C", "C+", "B", "B+", "A", "A+"}

OptionalColumns ==
    {"ACOMU12", "ACPU12", "AMAT1", "AMAT2", "ARA", "ARA1", "ARA2", "ARDE",
     "ATUR", "BIOU12", "BMU12", "BTUR", "CC", "CHEU12", "DE", "DRAU12",
     "DRPA", "EB", "ECOU12", "ELANU12", "ENG3", "ENGU12", "FATT", "FI",
     "GEO1", "GMATU12", "GRDE", "HHDU12", "HIS1", "HISU12", "HPE2", "HPE3",
     "IMAT1", "IMAT2", "IMAT3", "INN", "LEGU12", "LITU12", "MAT2",
     "MATMU12", "PEU12", "PHO", "PHYU12", "PSYU12", "RFIT", "RMAT", "ROB2",
     "RSC1", "RV3", "SCI2", "SCI3", "SCI4", "SCME", "SCPR", "SMATU12",
     "SVF", "TUR", "TUR1", "TUR2", "TUR5", "TUR6", "TUR7", "TURU12",
     "VBUSU12", "VCDU12", "VS", "VSRU12", "WDCS"}

\* Composite grades combined with a present optional column.
KeyGrades == {"C", "B+", "A", "N3", "N5"}

PairValues == {"", "S2", "B+", "A"}

ColumnPairs == {{"IMAT2", "IMAT3"}, {"SCI3", "RSC1"}, {"ENG3", "RFIT"}}

\* The optional columns of a one-row records table, the composite grade of
\* the row and the values of its optional cells.
RuleInputs ==
    {[P |-> {}, cg |-> g, cells |-> <<>>] : g \in CompositeGrades}
    \cup {[P |-> {c}, cg |-> g, cells |-> (c :> v)] :
              c \in OptionalColumns, g \in KeyGrades, v \in CellValues}
    \cup UNION {{[P |-> Q, cg |-> g, cells |-> f] :
                    g \in KeyGrades, f \in [Q -> PairValues]} :
                Q \in ColumnPairs}

InitRule ==
    /\ \E in \in RuleInputs, y \in 6..12 :
          res = [cols |-> Required \cup in.P,
                 rows |-> <<MkRow(Required \cup in.P, "S1", y, in.cg, in.cells)>>]
    /\ df = MkRoster(<<"S1">>, TRUE, FALSE)
    /\ pc = "start"
    /\ run = 1
    /\ df0 = df
    /\ first = df
    /\ todo = {}
    /\ order = <<>>

Evaluate ==
    /\ pc = "start"
    /\ \E s \in {apply_prerequisites(res, df)} :
           /\ df' = s.df
           /\ pc' = IF s.err THEN "error" ELSE "done"
    /\ UNCHANGED <<res, run, df0, first, todo, order>>

SpecRule == InitRule /\ [][Evaluate]_vars

\* ---- the rules as concurrent writers ----

\* Two rules of the catalog run in either order on the same roster.  Any
\* reordering of the catalog is a sequence of such exchanges.
InitConc ==
    /\ \E p \in Profiles, stale \in BOOLEAN :
          /\ res = [cols |-> Required,
                    rows |-> <<MkRow(Required, "S1", p.Y, p.CG, <<>>)>>]
          /\ df = MkRoster(<<"S1", "S2">>, TRUE, stale)
    /\ \E a \in Subjects, b \in Subjects : a # b /\ todo = {a, b}
    /\ pc = "rules"
    /\ run = 1
    /\ df0 = df
    /\ first = df
    /\ order = <<>>

Writer ==
    /\ pc = "rules"
    /\ \E subj \in todo :
          /\ df' = Stmt(subj, res, df).df
          /\ todo' = todo \ {subj}
          /\ order' = Append(order, subj)
    /\ UNCHANGED <<res, pc, run, df0, first>>

SpecConc == InitConc /\ [][Writer]_vars

\* The rules of a set in the order of the source.
InCodeOrder(S) ==
    SelectSeq(Catalog, LAMBDA subj : subj \in S)


\* ======================= properties of the call ========================

\* The record rows of the student of roster row i.
RowsOf(i) ==
    {j \in DOMAIN res.rows : res.rows[j]["StuID"] = df.col["Student ID"][i]}

\* The subjects whose column set_flag writes on these records.
SetFlagSubjects ==
    Subjects \ (IF "SVF" \in res.cols THEN {} ELSE {"Social Values in Film"})

\* C3: after the call, for every subject set through set_flag and every
\* roster row, the flag is 1 iff at least one record row of that student
\* satisfies the rule of the subject; a roster student without record rows
\* has 0 for every subject, and record rows of students that are not in the
\* roster leave the number of roster rows as it was.
C3_FlagIffSomeRowQualifies ==
    pc = "done" =>
        /\ df.n = df0.n
        /\ \A i \in 1..df.n :
              /\ \A subj \in SetFlagSubjects :
                    (df.col[subj][i] = 1) <=>
                        (\E j \in RowsOf(i) : Rule(subj, res, res.rows[j]))
              /\ RowsOf(i) = {} => \A subj \in Subjects : df.col[subj][i] = 0

\* A student with two record rows of which only one passes the year-6 gate
\* is flagged, next to a roster student without any record row.
C3_Witness ==
    /\ pc = "done"
    /\ \E i \in 1..df.n :
          /\ \E j \in RowsOf(i) : y6(res.rows[j])
          /\ \E j \in RowsOf(i) : ~y6(res.rows[j])
          /\ df.col["Science 1"][i] = 1
    /\ \E i \in 1..df.n : RowsOf(i) = {}

MissingRequired ==
    ~(Required \subseteq res.cols) \/ "Student ID" \notin df0.names

\* C5: when StuID, Y or CG is missing from the records, or 'Student ID'
\* from the roster, the call never gets past its first rule and the roster
\* is, at every moment and when the error is raised, as it was before the
\* call.
C5_FailsBeforeMutating ==
    MissingRequired => (pc \in {"start", "Year7", "error"} /\ df = df0)

\* The error has been raised on a non-empty roster and non-empty records
\* that lack StuID.
C5_Witness ==
    /\ pc = "error"
    /\ "StuID" \notin res.cols
    /\ Len(res.rows) > 0
    /\ df.n > 0

\* C7 as stated: every column the roster had before the call is unchanged.
C7_EveryPriorColumnKept ==
    pc = "done" =>
        /\ df.n = df0.n
        /\ \A c \in df0.names : c \in df.names /\ df.col[c] = df0.col[c]
        /\ (df.names \ df0.names) \subseteq Subjects

\* C7, amended: the call keeps the rows and their order, keeps every prior
\* column that does not carry the name of a catalog subject, and adds only
\* catalog-subject columns; a prior column named like a catalog subject is
\* overwritten with that subject's flags.
C7_OtherColumnsKept ==
    pc = "done" =>
        /\ df.n = df0.n
        /\ \A c \in df0.names \ Subjects : c \in df.names /\ df.col[c] = df0.col[c]
        /\ (df.names \ df0.names) \subseteq Subjects

\* The first call returned on a roster that already had a 'Media' column.
C7_Witness ==
    /\ pc = "done"
    /\ run = 1
    /\ df.n = MaxRoster
    /\ "Media" \in df0.names
    /\ df.col["Seat"] = df0.col["Seat"]
    /\ df.col["Media"] # df0.col["Media"]

\* C8: after a successful call every catalog subject is a column of the
\* roster with exactly one value per row, 0 or 1.
C8_EveryFlagZeroOrOne ==
    pc = "done" =>
        \A subj \in Subjects :
            /\ subj \in df.names
            /\ Len(df.col[subj]) = df.n
            /\ \A i \in 1..df.n : df.col[subj][i] \in {0, 1}

\* The call returned on records without the SVF column and a roster with
\* a student that has no record row and a student that has one.
C8_Witness ==
    /\ pc = "done"
    /\ "SVF" \notin res.cols
    /\ \E i \in 1..df.n : RowsOf(i) = {}
    /\ \E i \in 1..df.n : RowsOf(i) # {}
    /\ df.col["Social Values in Film"] = [i \in 1..df.n |-> 0]

\* C10: a further call with the same records on the roster a call returned
\* leaves every flag as the first call left it and adds no column.
C10_RerunSameFlags ==
    (pc = "done" /\ run > 1) =>
        /\ df.names = first.names
        /\ \A subj \in Subjects : df.col[subj] = first.col[subj]

\* The second call returned and some flag is 1.
C10_Witness ==
    /\ pc = "done"
    /\ run = 2
    /\ \E subj \in Subjects : \E i \in 1..df.n : df.col[subj][i] = 1

\* ================== properties of the rule catalog ====================
\* (checked on the one-row records of SpecRule, whose student is the one
\* roster row, so that the flag of a subject is its rule on that row)

TheRow == res.rows[1]

PresentOptional == res.cols \cap OptionalColumns

\* C1 as stated: for an optional column that is absent, the clauses that read
\* it through sget are false: neither sget(col) != '' nor sget(col) == ''
\* holds, and a subject whose whole rule is the marker test has flag 0.
C1_AbsentColumnClausesFalse ==
    pc = "done" =>
        /\ \A col \in OptionalColumns \ res.cols :
              /\ ~(sget(res, TheRow, col) # "")
              /\ ~(sget(res, TheRow, col) = "")
        /\ \A m \in MarkerOnly :
              m[2] \notin res.cols => df.col[m[1]][1] = 0

\* The records without the column c.
Remove(rs, c) ==
    [cols |-> rs.cols \ {c},
     rows |-> [i \in DOMAIN rs.rows |->
                 [x \in rs.cols \ {c} |-> rs.rows[i][x]]]]

AllEmpty(c) ==
    \A i \in DOMAIN res.rows : res.rows[i][c] = ""

\* C2 as stated: removing a present optional column changes the flag of no
\* subject but 'Social Values in Film'.
C2_RemovalChangesNothing ==
    pc = "done" =>
        \A c \in PresentOptional :
            \A without \in {apply_prerequisites(Remove(res, c), df0).df} :
                \A subj \in Subjects \ {"Social Values in Film"} :
                    without.col[subj] = df.col[subj]

\* C2, amended: removing an optional column that is present with only
\* empty-string values leaves the flag of every subject whose rule does not
\* compare sget of that column with '' as it was.
C2_RemovingEmptyColumn ==
    pc = "done" =>
        \A c \in PresentOptional :
            AllEmpty(c) =>
                \A without \in {apply_prerequisites(Remove(res, c), df0).df} :
                    \A subj \in Subjects :
                        <<subj, c>> \notin EmptyCompared =>
                            without.col[subj] = df.col[subj]

\* The call returned on year-9 records whose only optional column, SCI3,
\* which 'Research Science 1' and 'Biology U12' read through grade lists,
\* is empty.
C2_Witness ==
    /\ pc = "done"
    /\ PresentOptional = {"SCI3"}
    /\ AllEmpty("SCI3")
    /\ y9(TheRow)
    /\ df.col["Research Science 1"][1] = 0

\* The letter scale of the claim, and the grades the lists of the source
\* name, in rising order.
ClaimedScale == <<"C-", "C", "C+", "B-", "B", "B+", "A-", "A", "A+">>
NamedScale == <<"D+", "C", "C+", "B", "B+", "A", "A+">>

Higher(scale, g) ==
    {scale[k] : k \in {m \in DOMAIN scale :
                          \E l \in DOMAIN scale : scale[l] = g /\ m > l}}

\* The columns that hold a grade of the letter scale (ARA and BTUR hold
\* language placement levels).
GradeColumns == ({"CG"} \cup PresentOptional) \ {"ARA", "BTUR"}

\* The threshold masks of the source on one row.
ThresholdMasks(rs, r) ==
    <<cgtop3(r), cgtop4(r), early_VCE(r), early_VCE_mid(r), early_VCE_high(r),
      art_high(rs, r), hum_high(rs, r), mat_high(rs, r), sci_high(rs, r),
      pe_high(rs, r), mat_high10(rs, r), mat_mid10(rs, r), sci_mid10(rs, r),
      sci_minmid10(rs, r), sci_min10(rs, r)>>

\* Whatever the row satisfies, it satisfies with a grade raised in scale.
UpwardClosed(scale) ==
    pc = "done" =>
        \A c \in GradeColumns : \A h \in Higher(scale, TheRow[c]) :
            \A raised \in {[TheRow EXCEPT ![c] = h]} :
                /\ \A m \in {ThresholdMasks(res, TheRow)} :
                   \A n \in {ThresholdMasks(res, raised)} :
                       \A k \in DOMAIN m : m[k] => n[k]
                /\ \A subj \in Subjects :
                       df.col[subj][1] = 1 => Rule(subj, res, raised)

\* C4 as stated: every threshold is upward closed in the scale
\* C- < C < C+ < B- < B < B+ < A- < A < A+.
C4_ClosedInClaimedScale == UpwardClosed(ClaimedScale)

\* C4, amended: every letter-grade threshold is upward closed in the scale
\* of the grades the lists of the source name,
\* D+ < C < C+ < B < B+ < A < A+.
C4_ClosedInNamedScale == UpwardClosed(NamedScale)

\* A year-9 row at the cutoff of cgtop3 with an A in ARDE is flagged through
\* art_high.
C4_Witness ==
    /\ pc = "done"
    /\ y9(TheRow)
    /\ TheRow["CG"] = "B+"
    /\ PresentOptional = {"ARDE"}
    /\ TheRow["ARDE"] = "A"
    /\ art_high(res, TheRow)
    /\ df.col["Art Creative Practice U12"][1] = 1

\* The tiers of the new-curriculum scale N2 < N3 < N4 < N5 at or above t.
NewScale == <<"N2", "N3", "N4", "N5">>
AtOrAbove(t) == {t} \cup Higher(NewScale, t)

\* The override clauses of the catalog: the subject, the year levels the
\* clause admits, its lowest tier and the columns its other conjuncts
\* require to be present and empty.
Override(subj, years, tier, empty) ==
    [subj |-> subj, years |-> years, tier |-> tier, empty |-> empty]

Overrides ==
    {Override("Arabic 1", {6}, "N2", {}),
     Override("Arabic 2", {7}, "N2", {}),
     Override("Arabic 3", {8}, "N2", {}),
     Override("Advanced Mathematics 1", {8}, "N5", {}),
     Override("Recreational Fitness", {8, 9}, "N5", {"RFIT"}),
     Override("Research Science 1", {8, 9}, "N4", {}),
     Override("Research Science 2", {8}, "N4", {}),
     Override("Advanced English", {9}, "N4", {}),
     Override("Advanced Mathematics 2", {9}, "N5", {}),
     Override("Extended Mathematics", {9}, "N5", {}),
     Override("Chemistry U12", {10}, "N4", {}),
     Override("Chemistry U12", {9, 10}, "N5", {}),
     Override("Physics U12", {10}, "N4", {}),
     Override("Physics U12", {9, 10}, "N5", {}),
     Override("Applied Computing U12", {9}, "N3", {"ACOMU12"}),
     Override("Biology U12", {9, 10}, "N4", {}),
     Override("Business Management U12", {9}, "N3", {"BMU12"}),
     Override("Health and Human Development U12", {9}, "N3", {"HHDU12"}),
     Override("Mathematical Methods U12", {10}, "N4", {}),
     Override("Mathematical Methods U12", {9, 10}, "N5", {}),
     Override("Product Design and Technologies U12", {9}, "N5", {}),
     Override("Psychology U12", {9, 10}, "N4", {}),
     Override("Specialist Mathematics U12", {10}, "N4", {}),
     Override("General Mathematics U34", {10}, "N4", {}),
     Override("Specialist Mathematics U34", {11}, "N5", {})}
    \cup {Override(subj, {9}, "N5", {}) :
            subj \in {"Art Creative Practice U12", "Theatre Studies U12",
                      "Visual Communication Design U12", "Economics U12",
                      "History U12", "Legal Studies U12",
                      "Texts and Traditions U12", "Politics U12",
                      "Sociology U12",
                      "Outdoor and Environmental Studies U12",
                      "Physical Education U12"}}

OverrideApplies(o) ==
    /\ TheRow["Y"] \in o.years
    /\ TheRow["CG"] \in AtOrAbove(o.tier)
    /\ \A c \in o.empty : c \in res.cols /\ TheRow[c] = ""

\* C6: a row in a year level an override clause admits, with a composite
\* grade at the tier of the clause or above and the other conjuncts of the
\* rule satisfied, gives the student flag 1, whatever the legacy scores.
C6_OverrideAloneQualifies ==
    pc = "done" =>
        \A o \in Overrides : OverrideApplies(o) => df.col[o.subj][1] = 1

\* A single year-9 row with CG N5 and no science score: 'Biology U12' is 1
\* although the legacy clauses of its rule fail.
C6_Witness ==
    /\ pc = "done"
    /\ y9(TheRow)
    /\ TheRow["CG"] = "N5"
    /\ PresentOptional = {}
    /\ ~cgtop4(TheRow)
    /\ ~sci_min10(res, TheRow)
    /\ df.col["Biology U12"][1] = 1

\* =============== properties of the concurrent writers =================

\* C9: every catalog subject is written by exactly one rule, and two rules
\* that ran in either order leave the roster as the order of the source
\* leaves it.
C9_OrderIrrelevant ==
    /\ Cardinality(Subjects) = Len(Catalog)
    /\ (pc = "rules" /\ todo = {}) =>
           df = RunStmts(InCodeOrder(Range(order)), res, df0).df

\* 'Research Science 2' ran before 'Research Science 1', against the order
\* of the source, and the two columns differ.
C9_Witness ==
    /\ pc = "rules"
    /\ todo = {}
    /\ order = <<"Research Science 2", "Research Science 1">>
    /\ df.col["Research Science 1"] # df.col["Research Science 2"]

=============================================================================
